---- MODULE Spec2Model ----
(***************************************************************************)
(* The review extractors of the repository: scraper.py (aggregate saved    *)
(* pages: embedded object graph, DOM fallback, join, dedupe and sort) and  *)
(* Curl/parse.py (one saved listing: DOM extraction, padding to 5 rows).   *)
(*                                                                         *)
(* Strings are sequences of characters (one-character strings; "&amp;" is  *)
(* a character reference, one token).  An optional value (Python's None,   *)
(* a selector that matched nothing) is a sequence of length 0 or 1:        *)
(* <<>> is None, <<v>> is the value v.                                     *)
(***************************************************************************)
EXTENDS Integers, Sequences, FiniteSets, TLC

VARIABLES files, fileno, raw, json_reviews, users, blocks, bi, reviewer,
          rating, date, text, kept, out, all_reviews, final_rows, reviews, pc

vars == <<files, fileno, raw, json_reviews, users, blocks, bi, reviewer,
          rating, date, text, kept, out, all_reviews, final_rows, reviews, pc>>

\* ------------------------------------------------------------- bounds
MaxFiles == 2
MaxEntries == 2
MaxBlocks == 2
MaxSoup == 6

\* ------------------------------------------------------------ strings
None == <<>>
Some(v) == <<v>>
EmptyStr == <<>>

IsSpace(c) == c \in {" ", "\n"}

\* Python truthiness of an optional string: neither None nor "".
Truthy(m) == m # None /\ m[1] # EmptyStr

\* `x or ""`, for an optional string x.
OrEmpty(m) == IF Truthy(m) THEN m[1] ELSE EmptyStr

\* a or b, for two optional strings (the value of Python's `or`).
OrElse(a, b) == IF Truthy(a) THEN a ELSE b

RECURSIVE lstrip(_)
lstrip(s) == IF s # <<>> /\ IsSpace(Head(s)) THEN lstrip(Tail(s)) ELSE s

RECURSIVE rstrip(_)
rstrip(s) ==
  IF s # <<>> /\ IsSpace(s[Len(s)]) THEN rstrip(SubSeq(s, 1, Len(s) - 1)) ELSE s

strip(s) == rstrip(lstrip(s))

\* re.sub(r"\s+", " ", t): every run of whitespace becomes one space.
RECURSIVE collapse(_)
collapse(s) ==
  IF s = <<>> THEN <<>>
  ELSE IF IsSpace(Head(s)) THEN <<" ">> \o collapse(lstrip(s))
  ELSE <<Head(s)>> \o collapse(Tail(s))

norm(s) == collapse(strip(s))

\* html.unescape, on the character references of the model's alphabet.
unesc(s) == [i \in 1..Len(s) |-> IF s[i] = "&amp;" THEN "&" ELSE s[i]]

\* s.split(":", 1)[-1]: what follows the first colon, or s when it has none.
AfterColon(s) ==
  IF \A i \in 1..Len(s) : s[i] # ":" THEN s
  ELSE LET c == CHOOSE i \in 1..Len(s) :
                  s[i] = ":" /\ \A j \in 1..(i - 1) : s[j] # ":"
       IN SubSeq(s, c + 1, Len(s))

\* Code points of the characters that occur in date strings.
Ord(c) ==
  CASE c = " " -> 32 [] c = "-" -> 45 [] c = "0" -> 48 [] c = "1" -> 49
    [] c = "2" -> 50 [] c = "3" -> 51 [] c = "9" -> 57 [] c = "M" -> 77
    [] c = "a" -> 97 [] c = "y" -> 121 [] OTHER -> 63

\* a <= b in Python's ordering of str (code point by code point).
RECURSIVE StrLe(_, _)
StrLe(a, b) ==
  IF a = <<>> THEN TRUE
  ELSE IF b = <<>> THEN FALSE
  ELSE IF Ord(Head(a)) < Ord(Head(b)) THEN TRUE
  ELSE IF Ord(Head(a)) > Ord(Head(b)) THEN FALSE
  ELSE StrLe(Tail(a), Tail(b))

\* ------------------------------------------- scraper.py: object graph
\* Reading a <script> (its text unescaped, comment markers stripped, then
\* json.loads) either gives a dict or the payload is skipped.
\* A script payload is [dict |-> whether json.loads gave a dict, entries |->
\* its items in order, each [key, node]].  A node is [isdict, typename,
\* displayName, text_full, text_plain, encid, reviewId, author_ref, rating,
\* created_local, localizedDate], the fields optional.
NoUsers == [u \in {} |-> EmptyStr]

PutUser(table, uid, name) ==
  [u \in DOMAIN table \cup {uid} |-> IF u = uid THEN name ELSE table[u]]

\* node.get("text").get("full") or ....get("plain") or ""
NodeText(node) == OrEmpty(OrElse(node.text_full, node.text_plain))

ReviewOfNode(key, node) ==
  [review_id  |-> OrElse(OrElse(node.encid, node.reviewId), Some(key)),
   author_ref |-> AfterColon(OrEmpty(node.author_ref)),
   stars      |-> node.rating,
   date       |-> OrEmpty(OrElse(node.created_local, node.localizedDate)),
   text       |-> norm(NodeText(node))]
\* Mutant of SkipsReview: `if not text` without the strip.
SkipsUnstripped(node) == NodeText(node) = EmptyStr

\* The hard filter of the Review branch: a node without text is skipped.
SkipsReview(node) == strip(NodeText(node)) = EmptyStr

\* One iteration of `for key, node in data.items()`.
ScanNode(acc, key, node) ==
  IF ~node.isdict THEN acc
  ELSE IF node.typename = "User" THEN
    LET uid  == AfterColon(key)
        name == unesc(OrEmpty(node.displayName))
    IN IF uid # EmptyStr /\ name # EmptyStr
       THEN [acc EXCEPT !.users = PutUser(acc.users, uid, name)]
       ELSE acc
  ELSE IF node.typename = "Review" THEN
    IF SkipsReview(node) THEN acc
    ELSE [acc EXCEPT !.reviews = Append(acc.reviews, ReviewOfNode(key, node))]
  ELSE acc

RECURSIVE ScanEntries(_, _)
ScanEntries(acc, entries) ==
  IF entries = <<>> THEN acc
  ELSE ScanEntries(ScanNode(acc, Head(entries).key, Head(entries).node),
                   Tail(entries))

RECURSIVE ScanScripts(_, _)
ScanScripts(acc, scripts) ==
  IF scripts = <<>> THEN acc
  ELSE ScanScripts(IF Head(scripts).dict
                   THEN ScanEntries(acc, Head(scripts).entries) ELSE acc,
                   Tail(scripts))

\* Returns [reviews, users].
parse_json_blobs(page) ==
  ScanScripts([reviews |-> <<>>, users |-> NoUsers], page.scripts)

AttachName(r, table) ==
  IF "author_ref" \in DOMAIN r
  THEN [k \in (DOMAIN r \ {"author_ref"}) \cup {"reviewer"} |->
          IF k = "reviewer"
          THEN IF r.author_ref \in DOMAIN table THEN table[r.author_ref]
               ELSE EmptyStr
          ELSE r[k]]
  ELSE r
\* Mutant of attach_names: the name is set and the reference is kept.
attach_names_keepref(rs, table) ==
  [i \in 1..Len(rs) |->
     IF "author_ref" \in DOMAIN rs[i]
     THEN [k \in DOMAIN rs[i] \cup {"reviewer"} |->
             IF k = "reviewer" THEN AttachName(rs[i], table).reviewer
             ELSE rs[i][k]]
     ELSE rs[i]]

attach_names(rs, table) == [i \in 1..Len(rs) |-> AttachName(rs[i], table)]

\* ------------------------------------------ scraper.py: dedupe and sort
GetStr(r, k) == IF k \in DOMAIN r THEN r[k] ELSE EmptyStr

\* r.get("review_id") or f"{reviewer}|{date}"
Key(r) ==
  IF "review_id" \in DOMAIN r /\ Truthy(r.review_id) THEN r.review_id[1]
  ELSE GetStr(r, "reviewer") \o <<"|">> \o GetStr(r, "date")
\* Mutant of FirstSeen: on a key collision the later record takes the place
\* of the earlier one.
RECURSIVE LastSeen(_, _, _)
LastSeen(rs, seen, acc) ==
  IF rs = <<>> THEN acc
  ELSE LET r == Head(rs) IN
       IF GetStr(r, "text") = EmptyStr THEN LastSeen(Tail(rs), seen, acc)
       ELSE IF Key(r) \in seen
       THEN LastSeen(Tail(rs), seen,
                     [i \in 1..Len(acc) |-> IF Key(acc[i]) = Key(r) THEN r ELSE acc[i]])
       ELSE LastSeen(Tail(rs), seen \cup {Key(r)}, Append(acc, r))

RECURSIVE FirstSeen(_, _, _)
FirstSeen(rs, seen, acc) ==
  IF rs = <<>> THEN acc
  ELSE LET r == Head(rs) IN
       IF GetStr(r, "text") = EmptyStr THEN FirstSeen(Tail(rs), seen, acc)
       ELSE IF Key(r) \in seen THEN FirstSeen(Tail(rs), seen, acc)
       ELSE FirstSeen(Tail(rs), seen \cup {Key(r)}, Append(acc, r))

\* list.sort(key=date, reverse=True): descending and stable, so a record goes
\* behind every record whose date is greater than or equal to its own.
RECURSIVE InsertDesc(_, _)
InsertDesc(sorted, r) ==
  IF sorted = <<>> THEN <<r>>
  ELSE IF StrLe(GetStr(r, "date"), GetStr(Head(sorted), "date"))
       THEN <<Head(sorted)>> \o InsertDesc(Tail(sorted), r)
       ELSE <<r>> \o sorted
\* Mutant of SortDesc: the sort is left out.
SortNone(rs, acc) == rs

RECURSIVE SortDesc(_, _)
SortDesc(rs, acc) ==
  IF rs = <<>> THEN acc ELSE SortDesc(Tail(rs), InsertDesc(acc, Head(rs)))

dedupe(rs) == SortDesc(FirstSeen(rs, {}, <<>>), <<>>)

\* ------------------------------------------------- the DOM of a page
\* A page's DOM is the sequence, in document order, of the elements that one
\* of the container selectors matches.  An element records which of them
\* match it (m1: [data-testid="review"]; m2: section[aria-label*='Review']
\* article, li.review, div.review; m3: ul.list__09f24__ynIEd > li) and what
\* select_one finds inside it for each field selector: None, or the matched
\* element's stripped text (get_text(" ", strip=True)); for the star
\* selectors the matched element's aria-label; time_datetime is the datetime
\* attribute of the first <time>, None when it has none.
SelReviewer == <<"passport", "author_name", "user_details", "display_name", "strong">>
SelDate     == <<"ycss", "review_date", "time", "span_has_time">>
SelText     == <<"nth4", "review_comment", "break_words", "p">>

\* re.search(r"([0-9]+(?:\.[0-9]+)?)\s*star", label, re.I) as a float, on
\* the labels of the model.
rating_from_label(label) ==
  IF label = None THEN None
  ELSE CASE label[1] = "4 star rating" -> Some(4)
         [] label[1] = "0 star rating" -> Some(0)
         [] OTHER -> None

\* Python truthiness of an optional number: neither None nor 0.0.
TruthyNum(m) == m # None /\ m[1] # 0

\* The text of the first selector of the cascade that matches an element
\* (`if el: ...; break`: a bs4 Tag is always true), None when none matches.
RECURSIVE FirstMatch(_, _)
FirstMatch(b, sels) ==
  IF sels = <<>> THEN None
  ELSE IF b[Head(sels)] # None THEN b[Head(sels)]
  ELSE FirstMatch(b, Tail(sels))

\* first(*values) of Curl/parse.py over txt(select_one(sel)): the first
\* text that is neither None nor empty.
RECURSIVE first(_, _)
first(b, sels) ==
  IF sels = <<>> THEN None
  ELSE IF Truthy(b[Head(sels)]) THEN b[Head(sels)]
  ELSE first(b, Tail(sels))

\* ------------------------------------ scraper.py: parse_dom_fallback
select_blocks(dom) ==
  LET l1 == SelectSeq(dom, LAMBDA e : e.m1) IN
  IF l1 # <<>> THEN l1 ELSE SelectSeq(dom, LAMBDA e : e.m2 \/ e.m3)

dom_reviewer(b) == FirstMatch(b, SelReviewer)

dom_rating(b) ==
  rating_from_label(IF b.star_img # None THEN b.star_img ELSE b.star_any)

dom_date(b) ==
  LET d == OrEmpty(FirstMatch(b, SelDate)) IN
  IF d = EmptyStr /\ b.time # None /\ b.time_datetime # None
  THEN b.time_datetime[1] ELSE d

dom_text(b) == OrEmpty(FirstMatch(b, SelText))

\* if reviewer or rating or text
dom_keep(rv, rt, tx) == Truthy(rv) \/ TruthyNum(rt) \/ tx # EmptyStr

dom_record(rv, rt, dt, tx) ==
  [review_id |-> None, reviewer |-> OrEmpty(rv), stars |-> rt, date |-> dt,
   text |-> norm(tx)]

RECURSIVE DomRecords(_)
DomRecords(bs) ==
  IF bs = <<>> THEN <<>>
  ELSE LET b == Head(bs) IN
       (IF dom_keep(dom_reviewer(b), dom_rating(b), dom_text(b))
        THEN <<dom_record(dom_reviewer(b), dom_rating(b), dom_date(b), dom_text(b))>>
        ELSE <<>>) \o DomRecords(Tail(bs))

parse_dom_fallback(page) == DomRecords(select_blocks(page.dom))

\* ------------------------------------- Curl/parse.py: parse_reviews
soup_blocks(dom) ==
  LET l1 == SelectSeq(dom, LAMBDA e : e.m1)
      l2 == SelectSeq(dom, LAMBDA e : e.m2)
  IN IF l1 # <<>> THEN l1
     ELSE IF l2 # <<>> THEN l2
     ELSE SelectSeq(dom, LAMBDA e : e.m3)

Anonymous == <<"A", "n", "o", "n">>

soup_reviewer(b) ==
  OrElse(OrElse(b.passport, first(b, Tail(SelReviewer))), Some(Anonymous))[1]

soup_rating(b) ==
  LET r == rating_from_label(b.star_img) IN
  IF r = None THEN rating_from_label(b.star_any) ELSE r

soup_date(b) ==
  IF Truthy(b.ycss) THEN b.ycss[1]
  ELSE IF b.time # None /\ b.time_datetime # None THEN b.time_datetime[1]
  ELSE OrEmpty(first(b, <<"review_date", "span_has_time", "time">>))

soup_text(b) == OrEmpty(OrElse(b.nth4, first(b, Tail(SelText))))

\* int(re.search(r"([0-9,]+)", rc_raw).group(1)), on the labels of the model.
soup_review_count(b) ==
  IF ~Truthy(b.rc) THEN None
  ELSE IF b.rc[1] = <<"1", "2">> THEN Some(12) ELSE None

\* any([reviewer, rating, date, text, review_count])
soup_keep(rv, rt, dt, tx, rc) ==
  rv # EmptyStr \/ TruthyNum(rt) \/ dt # EmptyStr \/ tx # EmptyStr \/ TruthyNum(rc)

soup_record(rv, rt, dt, tx, rc) ==
  [reviewer |-> rv, rating |-> rt, date |-> strip(dt), text |-> strip(tx),
   review_count |-> rc]

Placeholder ==
  [reviewer |-> Anonymous, rating |-> None, date |-> EmptyStr,
   text |-> EmptyStr, review_count |-> None]

MinRows == 5
\* Mutant of pad: MinRows placeholders whenever the list is short.
pad_fixed(rs) ==
  IF Len(rs) < MinRows THEN rs \o [i \in 1..MinRows |-> Placeholder] ELSE rs

\* reviews.extend([placeholder for _ in range(5 - len(reviews))])
pad(rs) ==
  IF Len(rs) < MinRows
  THEN rs \o [i \in 1..(MinRows - Len(rs)) |-> Placeholder]
  ELSE rs
\* ------------------------------------------ semantic-markup extractor
\* The date component of a timestamp: what precedes its "T".
DatePart(s) ==
  IF \A i \in 1..Len(s) : s[i] # "T" THEN s
  ELSE SubSeq(s, 1, (CHOOSE i \in 1..Len(s) :
                       s[i] = "T" /\ \A j \in 1..(i - 1) : s[j] # "T") - 1)

\* The reviews of a page's linked-data items, normalised; an item without
\* text is dropped.
RECURSIVE LdRecords(_)
LdRecords(items) ==
  IF items = <<>> THEN <<>>
  ELSE LET it == Head(items) IN
       (IF Truthy(it.description)
        THEN <<[review_id |-> None, reviewer |-> OrEmpty(it.author),
                stars |-> it.rating, date |-> DatePart(OrEmpty(it.datePublished)),
                text |-> it.description[1]]>>
        ELSE <<>>) \o LdRecords(Tail(items))

semantic_markup(page) == LdRecords(page.ld)

\* ---------------------------------------------------------- the inputs
Amy      == <<"A", "m", "y">>
Bob      == <<"B", "o", "b">>
AmpName  == <<"A", "&amp;", "B">>
Good     == <<"G", "o", "o", "d">>
Nice     == <<"N", "i", "c", "e">>
Spaced   == <<"a", " ", "\n", "b">>
Blank    == <<" ">>
Date21   == <<"2", "0", "2", "1">>
Date23   == <<"2", "0", "2", "3">>
DateMay  == <<"M", "a", "y", " ", "1">>
KeyU1    == <<"U", ":", "1">>
KeyU2    == <<"U", ":", "2">>
KeyR1    == <<"R", ":", "1">>
KeyR2    == <<"R", ":", "2">>
KeyX     == <<"x">>

BaseNode ==
  [isdict |-> TRUE, typename |-> "Other", displayName |-> None,
   text_full |-> None, text_plain |-> None, encid |-> None, reviewId |-> None,
   author_ref |-> None, rating |-> None, created_local |-> None,
   localizedDate |-> None]

UserEntries ==
  {[key |-> KeyU1, node |-> [BaseNode EXCEPT !.typename = "User", !.displayName = n]] :
     n \in {Some(Amy), Some(EmptyStr)}}
  \cup {[key |-> KeyU2, node |-> [BaseNode EXCEPT !.typename = "User",
                                                   !.displayName = Some(AmpName)]]}

\* Reviews that differ in their text fields, and reviews that differ in the
\* author they refer to.
ReviewEntries ==
  {[key |-> KeyR1,
    node |-> [BaseNode EXCEPT !.typename = "Review", !.text_full = t[1],
                              !.text_plain = t[2], !.author_ref = Some(KeyU1),
                              !.rating = Some(4), !.localizedDate = Some(DateMay)]] :
     t \in {<<None, None>>, <<Some(EmptyStr), Some(EmptyStr)>>,
            <<Some(Blank), Some(Good)>>, <<None, Some(Spaced)>>}}
  \cup
  {[key |-> KeyR2,
    node |-> [BaseNode EXCEPT !.typename = "Review", !.text_full = Some(Good),
                              !.author_ref = a, !.created_local = Some(Date23)]] :
     a \in {None, Some(KeyU1), Some(KeyU2)}}

OtherEntries ==
  {[key |-> KeyX, node |-> [BaseNode EXCEPT !.isdict = FALSE]]}

Entries == UserEntries \cup ReviewEntries \cup OtherEntries

\* The items of one JSON object: their keys differ.
RECURSIVE EntrySeqs(_)
EntrySeqs(n) ==
  IF n = 0 THEN {<<>>}
  ELSE LET shorter == EntrySeqs(n - 1) IN
       shorter \cup
       {Append(es, e) : es \in {x \in shorter : Len(x) = n - 1},
                        e \in Entries} 

DistinctKeys(es) ==
  \A i, j \in 1..Len(es) : i # j => es[i].key # es[j].key

BadScript == [dict |-> FALSE, entries |-> <<>>]

\* The items in one payload, or one payload per item behind an unparseable one.
Whole(es) == <<[dict |-> TRUE, entries |-> es]>>
Split(es) == <<BadScript>> \o [i \in 1..Len(es) |-> [dict |-> TRUE, entries |-> <<es[i]>>]]

ScriptLists ==
  {Whole(es) : es \in {x \in EntrySeqs(MaxEntries) : DistinctKeys(x)}}
  \cup {Split(es) : es \in {x \in EntrySeqs(MaxEntries) : Len(x) > 1}}

BaseEl ==
  [m1 |-> TRUE, m2 |-> FALSE, m3 |-> FALSE,
   passport |-> None, author_name |-> None, user_details |-> None,
   display_name |-> None, strong |-> None,
   star_img |-> None, star_any |-> None,
   ycss |-> None, review_date |-> None, time |-> None, time_datetime |-> None,
   span_has_time |-> None,
   nth4 |-> None, review_comment |-> None, break_words |-> None, p |-> None,
   rc |-> None]

ReviewerEls ==
  {[BaseEl EXCEPT !.passport = a, !.strong = b] :
     a \in {None, Some(EmptyStr), Some(Amy)}, b \in {None, Some(Bob)}}

\* <time> with its text and its datetime attribute.
DateEls ==
  {[BaseEl EXCEPT !.ycss = y, !.time = t[1], !.time_datetime = t[2]] :
     y \in {None, Some(DateMay)},
     t \in {<<Some(EmptyStr), Some(Date23)>>, <<Some(DateMay), Some(Date23)>>,
            <<Some(DateMay), None>>}}

TextEls ==
  {[BaseEl EXCEPT !.review_comment = c, !.p = q] :
     c \in {Some(EmptyStr), Some(Spaced)}, q \in {None, Some(Good)}}

RatingEls ==
  {[BaseEl EXCEPT !.star_img = r[1], !.star_any = r[2]] :
     r \in {<<Some("4 star rating"), Some("4 star rating")>>,
            <<None, Some("0 star rating")>>,
            <<Some("stars"), Some("4 star rating")>>}}

FullEl ==
  [BaseEl EXCEPT !.passport = Some(Amy), !.ycss = Some(Date21), !.p = Some(Good)]

LevelEls ==
  {[FullEl EXCEPT !.m1 = FALSE, !.m2 = l[1], !.m3 = l[2], !.p = l[3]] :
     l \in {<<TRUE, FALSE, Some(Good)>>, <<FALSE, TRUE, Some(Nice)>>,
            <<TRUE, TRUE, Some(Spaced)>>}}

Elements == ReviewerEls \cup DateEls \cup TextEls \cup RatingEls \cup LevelEls

RECURSIVE SeqsUpTo(_, _)
SeqsUpTo(S, n) ==
  IF n = 0 THEN {<<>>}
  ELSE LET shorter == SeqsUpTo(S, n - 1) IN
       shorter \cup {Append(x, e) : x \in {y \in shorter : Len(y) = n - 1}, e \in S}

\* One linked-data review item of a page: [author, rating, datePublished,
\* description].
LdAmy == [author |-> Some(Amy), rating |-> Some(4), datePublished |-> Some(Date23),
          description |-> Some(Nice)]

Page(scripts, ld, dom) == [scripts |-> scripts, ld |-> ld, dom |-> dom]

EmptyPage == Page(<<>>, <<>>, <<>>)

\* Pages with an object graph (over a DOM with or without a review), and
\* pages without one.
RichPages ==
  {Page(sc, <<>>, d) : sc \in ScriptLists, d \in {<<>>, <<FullEl>>}}
  \cup {Page(<<>>, ld, d) : ld \in {<<>>, <<LdAmy>>}, d \in SeqsUpTo(Elements, MaxBlocks)}

\* The pages of a run over several files: one review each, from the DOM
\* (same reviewer, two dates, three texts) or from the object graph.
DomPages ==
  {Page(<<>>, <<>>, <<[BaseEl EXCEPT !.passport = Some(Amy), !.ycss = Some(d),
                                     !.review_comment = Some(t)]>>) :
     d \in {Date21, Date23}, t \in {EmptyStr, Good, Nice}}

GraphPages ==
  {Page(Whole(<<[key |-> KeyR1,
                 node |-> [BaseNode EXCEPT !.typename = "Review",
                                           !.text_full = Some(t),
                                           !.encid = id,
                                           !.localizedDate = Some(DateMay)]]>>),
        <<>>, <<FullEl>>) :
     t \in {Good, Nice}, id \in {None, Some(KeyR2)}}

Pages == DomPages \cup GraphPages \cup {EmptyPage}

FileLists == SeqsUpTo(Pages, MaxFiles) \ {<<>>}

\* The elements of a listing handed to Curl/parse.py.
SoupEls ==
  {[FullEl EXCEPT !.star_img = Some("4 star rating"),
                  !.star_any = Some("4 star rating"), !.rc = Some(<<"1", "2">>)],
   BaseEl,
   [BaseEl EXCEPT !.m1 = FALSE, !.m3 = TRUE, !.strong = Some(Bob),
                  !.time = Some(DateMay), !.time_datetime = Some(Date23 \o Blank),
                  !.p = Some(Nice)]}

Soups == SeqsUpTo(SoupEls, MaxSoup)

\* --------------------------------------------------- scraper.py: main
\* `if json_reviews:`
json_found(jr) == jr # <<>>

Locals0 ==
  /\ raw = EmptyPage
  /\ json_reviews = <<>>
  /\ users = NoUsers
  /\ blocks = <<>>
  /\ bi = 0
  /\ reviewer = None
  /\ rating = None
  /\ date = EmptyStr
  /\ text = EmptyStr
  /\ kept = FALSE
  /\ out = <<>>
  /\ all_reviews = <<>>
  /\ final_rows = <<>>
  /\ reviews = <<>>

\* A run over one to MaxFiles saved pages.
Init ==
  /\ files \in FileLists
  /\ fileno = 0
  /\ pc = "loop"
  /\ Locals0

\* A run over a single page, drawn from the wider set.
InitExtract ==
  /\ files \in {<<pg>> : pg \in RichPages}
  /\ fileno = 0
  /\ pc = "loop"
  /\ Locals0

\* raw = fp.read_text(); json_reviews, users = parse_json_blobs(raw)
ParsePage ==
  /\ pc = "loop"
  /\ fileno < Len(files)
  /\ raw' = files[fileno + 1]
  /\ json_reviews' = parse_json_blobs(raw').reviews
  /\ users' = parse_json_blobs(raw').users
  /\ pc' = "parsed"
  /\ UNCHANGED <<files, fileno, blocks, bi, reviewer, rating, date, text, kept,
                 out, all_reviews, final_rows, reviews>>
\* Mutant of JoinNames: the DOM records are added to the graph's.
JoinAndDom ==
  /\ pc = "parsed"
  /\ json_found(json_reviews)
  /\ json_reviews' = attach_names(json_reviews, users)
  /\ all_reviews' = all_reviews \o json_reviews' \o parse_dom_fallback(raw)
  /\ fileno' = fileno + 1
  /\ pc' = "loop"
  /\ UNCHANGED <<files, raw, users, blocks, bi, reviewer, rating, date, text,
                 kept, out, final_rows, reviews>>

\* attach_names(json_reviews, users); all_reviews.extend(json_reviews)
JoinNames ==
  /\ pc = "parsed"
  /\ json_found(json_reviews)
  /\ json_reviews' = attach_names(json_reviews, users)
  /\ all_reviews' = all_reviews \o json_reviews'
  /\ fileno' = fileno + 1
  /\ pc' = "loop"
  /\ UNCHANGED <<files, raw, users, blocks, bi, reviewer, rating, date, text,
                 kept, out, final_rows, reviews>>

\* parse_dom_fallback: the containers are selected.
DomSelect ==
  /\ pc = "parsed"
  /\ ~json_found(json_reviews)
  /\ blocks' = select_blocks(raw.dom)
  /\ bi' = 0
  /\ out' = <<>>
  /\ pc' = "dom"
  /\ UNCHANGED <<files, fileno, raw, json_reviews, users, reviewer, rating,
                 date, text, kept, all_reviews, final_rows, reviews>>

\* parse_dom_fallback: one iteration of `for b in blocks`.
DomBlock ==
  /\ pc = "dom"
  /\ bi < Len(blocks)
  /\ LET b == blocks[bi + 1] IN
     /\ reviewer' = dom_reviewer(b)
     /\ rating' = dom_rating(b)
     /\ date' = dom_date(b)
     /\ text' = dom_text(b)
  /\ kept' = dom_keep(reviewer', rating', text')
  /\ out' = IF kept' THEN Append(out, dom_record(reviewer', rating', date', text'))
            ELSE out
  /\ bi' = bi + 1
  /\ UNCHANGED <<files, fileno, raw, json_reviews, users, blocks, all_reviews,
                 final_rows, reviews, pc>>

\* parse_dom_fallback returns; all_reviews.extend(...)
DomReturn ==
  /\ pc = "dom"
  /\ bi = Len(blocks)
  /\ all_reviews' = all_reviews \o out
  /\ fileno' = fileno + 1
  /\ pc' = "loop"
  /\ UNCHANGED <<files, raw, json_reviews, users, blocks, bi, reviewer, rating,
                 date, text, kept, out, final_rows, reviews>>

\* final_rows = dedupe(all_reviews)
Finish ==
  /\ pc = "loop"
  /\ fileno = Len(files)
  /\ final_rows' = dedupe(all_reviews)
  /\ pc' = "done"
  /\ UNCHANGED <<files, fileno, raw, json_reviews, users, blocks, bi, reviewer,
                 rating, date, text, kept, out, all_reviews, reviews>>

Next == ParsePage \/ JoinNames \/ DomSelect \/ DomBlock \/ DomReturn \/ Finish

Spec == Init /\ [][Next]_vars

SpecExtract == InitExtract /\ [][Next]_vars

\* ------------------------------------------------ Curl/parse.py: main
\* One saved listing: raw.dom is the parsed document.
InitParse ==
  /\ raw \in {Page(<<>>, <<>>, d) : d \in Soups}
  /\ files = <<>>
  /\ fileno = 0
  /\ pc = "soup"
  /\ json_reviews = <<>>
  /\ users = NoUsers
  /\ blocks = <<>>
  /\ bi = 0
  /\ reviewer = EmptyStr
  /\ rating = None
  /\ date = EmptyStr
  /\ text = EmptyStr
  /\ kept = FALSE
  /\ out = <<>>
  /\ all_reviews = <<>>
  /\ final_rows = <<>>
  /\ reviews = <<>>

\* parse_reviews: the containers are selected.
SoupSelect ==
  /\ pc = "soup"
  /\ blocks' = soup_blocks(raw.dom)
  /\ bi' = 0
  /\ out' = <<>>
  /\ pc' = "blocks"
  /\ UNCHANGED <<files, fileno, raw, json_reviews, users, reviewer, rating,
                 date, text, kept, all_reviews, final_rows, reviews>>

\* parse_reviews: one iteration of `for b in blocks`.
SoupBlock ==
  /\ pc = "blocks"
  /\ bi < Len(blocks)
  /\ LET b == blocks[bi + 1] IN
     /\ reviewer' = soup_reviewer(b)
     /\ rating' = soup_rating(b)
     /\ date' = soup_date(b)
     /\ text' = soup_text(b)
     /\ kept' = soup_keep(reviewer', rating', date', text', soup_review_count(b))
     /\ out' = IF kept'
               THEN Append(out, soup_record(reviewer', rating', date', text',
                                            soup_review_count(b)))
               ELSE out
  /\ bi' = bi + 1
  /\ UNCHANGED <<files, fileno, raw, json_reviews, users, blocks, all_reviews,
                 final_rows, reviews, pc>>

\* reviews = parse_reviews(soup)
SoupReturn ==
  /\ pc = "blocks"
  /\ bi = Len(blocks)
  /\ reviews' = out
  /\ pc' = "pad"
  /\ UNCHANGED <<files, fileno, raw, json_reviews, users, blocks, bi, reviewer,
                 rating, date, text, kept, out, all_reviews, final_rows>>

\* if len(reviews) < 5: reviews.extend(...)
Pad ==
  /\ pc = "pad"
  /\ reviews' = pad(reviews)
  /\ pc' = "written"
  /\ UNCHANGED <<files, fileno, raw, json_reviews, users, blocks, bi, reviewer,
                 rating, date, text, kept, out, all_reviews, final_rows>>

NextParse == SoupSelect \/ SoupBlock \/ SoupReturn \/ Pad

SpecParse == InitParse /\ [][NextParse]_vars

\* ---------------------------------------------------------- the claims
Max(a, b) == IF a > b THEN a ELSE b

\* The records of all_reviews that dedupe looks at: those with text.
HasText(r) == GetStr(r, "text") # EmptyStr

FirstWithKey(k) == CHOOSE i \in 1..Len(all_reviews) :
  /\ Key(all_reviews[i]) = k
  /\ \A j \in 1..(i - 1) : Key(all_reviews[j]) # k

FirstTextWithKey(k) == CHOOSE i \in 1..Len(all_reviews) :
  /\ Key(all_reviews[i]) = k /\ HasText(all_reviews[i])
  /\ \A j \in 1..(i - 1) : ~(Key(all_reviews[j]) = k /\ HasText(all_reviews[j]))

UniqueKeys ==
  \A k, l \in 1..Len(final_rows) : k # l => Key(final_rows[k]) # Key(final_rows[l])

\* C1, as stated: dedupe's output holds at most one record per identity key,
\* and each surviving record is the first record of the input with its key.
C1_FirstEncounteredSurvives ==
  pc = "done" =>
    /\ UniqueKeys
    /\ \A k \in 1..Len(final_rows) :
         final_rows[k] = all_reviews[FirstWithKey(Key(final_rows[k]))]

\* C1, amended: dedupe's output holds at most one record per identity key;
\* records with empty text never survive; and for every key that some input
\* record with text carries, the survivor is the first input record with
\* that key among those with text, whatever the later ones' text.
C1_FirstWithTextSurvives ==
  pc = "done" =>
    /\ UniqueKeys
    /\ \A k \in 1..Len(final_rows) :
         /\ HasText(final_rows[k])
         /\ \E i \in 1..Len(all_reviews) :
              HasText(all_reviews[i]) /\ Key(all_reviews[i]) = Key(final_rows[k])
         /\ final_rows[k] = all_reviews[FirstTextWithKey(Key(final_rows[k]))]
    /\ \A i \in 1..Len(all_reviews) :
         HasText(all_reviews[i]) =>
           \E k \in 1..Len(final_rows) : Key(final_rows[k]) = Key(all_reviews[i])

\* Two records with text, one key and different text went into dedupe.
C1_Witness ==
  /\ pc = "done"
  /\ \E i, j \in 1..Len(all_reviews) :
       /\ i < j
       /\ HasText(all_reviews[i]) /\ HasText(all_reviews[j])
       /\ Key(all_reviews[i]) = Key(all_reviews[j])
       /\ all_reviews[i].text # all_reviews[j].text

\* C2: after padding the list has length max(n, 5), its first n entries are
\* the n extracted records in their order, and every later entry is a
\* placeholder (sentinel reviewer, rating None, date "", text "").
C2_PaddedToFloor ==
  pc = "written" =>
    /\ Len(reviews) = Max(Len(out), MinRows)
    /\ SubSeq(reviews, 1, Len(out)) = out
    /\ \A i \in (Len(out) + 1)..Len(reviews) :
         /\ reviews[i].reviewer = Anonymous
         /\ reviews[i].rating = None
         /\ reviews[i].date = EmptyStr
         /\ reviews[i].text = EmptyStr

\* Some but fewer than five reviews were extracted, and padding ran.
C2_Witness == pc = "written" /\ Len(out) > 0 /\ Len(out) < MinRows

\* What a page adds to all_reviews.
GraphJoined(page) ==
  attach_names(parse_json_blobs(page).reviews, parse_json_blobs(page).users)

PageDone == pc # "loop" /\ pc' = "loop"

ItemsAt(page) ==
  UNION {{<<n, e>> : e \in 1..Len(page.scripts[n].entries)} :
           n \in {m \in 1..Len(page.scripts) : page.scripts[m].dict}}

ReviewNodeAt(page) ==
  {sn \in ItemsAt(page) :
     /\ page.scripts[sn[1]].entries[sn[2]].node.isdict
     /\ page.scripts[sn[1]].entries[sn[2]].node.typename = "Review"}

NodeAt(page, sn) == page.scripts[sn[1]].entries[sn[2]].node

Textless(node) == ~Truthy(node.text_full) /\ ~Truthy(node.text_plain)

\* C4: every record of the graph extractor has text, and there are no more
\* records than Review nodes with a non-empty text.full or text.plain: a
\* node with both empty or absent gives no record.
C4_TextlessNodesDropped ==
  /\ \A i \in 1..Len(json_reviews) : json_reviews[i].text # EmptyStr
  /\ Len(json_reviews) <=
       Cardinality({sn \in ReviewNodeAt(raw) : ~Textless(NodeAt(raw, sn))})

\* A page with a textless Review node and another that gave a record.
C4_Witness ==
  /\ pc = "parsed"
  /\ json_reviews # <<>>
  /\ \E sn \in ReviewNodeAt(raw) : Textless(NodeAt(raw, sn))

\* C5, as stated: a container gives a record exactly when its reviewer,
\* rating, date or text resolved to a non-empty value.
C5_RecordIffAnyField ==
  (pc = "dom" /\ bi > 0) =>
    (kept <=> (Truthy(reviewer) \/ rating # None \/ date # EmptyStr
               \/ text # EmptyStr))

\* C6: dedupe's output is in non-increasing order of the date string.
C6_DatesDescending ==
  pc = "done" =>
    \A k \in 1..(Len(final_rows) - 1) :
      StrLe(final_rows[k + 1].date, final_rows[k].date)

\* Two records with text came in ascending order of date and both survive.
C6_Witness ==
  /\ pc = "done"
  /\ Len(final_rows) = 2 /\ Len(all_reviews) = 2
  /\ all_reviews[1].date # all_reviews[2].date
  /\ StrLe(all_reviews[1].date, all_reviews[2].date)

\* C7, as stated: a container's reviewer is the text of the first selector
\* of the reviewer cascade that yields non-empty text.
C7_FirstNonEmptyReviewer ==
  (pc = "dom" /\ bi > 0) =>
    OrEmpty(reviewer) = OrEmpty(first(blocks[bi], SelReviewer))

\* C8, as stated: with a <time datetime=...> and visible date text in the
\* container, the date is the datetime attribute's value.
C8_DatetimePreferred ==
  (pc = "dom" /\ bi > 0) =>
    LET b == blocks[bi] IN
    (/\ b.time # None /\ Truthy(b.time_datetime)
     /\ \E i \in 1..Len(SelDate) : Truthy(b[SelDate[i]]))
    => date = b.time_datetime[1]

\* The user nodes of a page whose name is registered: non-empty id and name.
UserNodeAt(page) ==
  {sn \in ItemsAt(page) :
     /\ NodeAt(page, sn).isdict
     /\ NodeAt(page, sn).typename = "User"
     /\ Truthy(NodeAt(page, sn).displayName)
     /\ AfterColon(page.scripts[sn[1]].entries[sn[2]].key) # EmptyStr}

\* C9: after the join every named User node of the page is in the author
\* table, wherever it stood; every review's reviewer is the table's name for
\* its author_ref, or "" when the table has none; no review keeps author_ref.
C9_NamesJoined ==
  (pc \in {"loop", "done"} /\ json_reviews # <<>>) =>
    /\ \A sn \in UserNodeAt(raw) :
         AfterColon(raw.scripts[sn[1]].entries[sn[2]].key) \in DOMAIN users
    /\ Len(json_reviews) = Len(parse_json_blobs(raw).reviews)
    /\ \A i \in 1..Len(json_reviews) :
         LET ref == parse_json_blobs(raw).reviews[i].author_ref IN
         /\ "author_ref" \notin DOMAIN json_reviews[i]
         /\ "reviewer" \in DOMAIN json_reviews[i]
         /\ json_reviews[i].reviewer =
              (IF ref \in DOMAIN users THEN users[ref] ELSE EmptyStr)

\* A review that stood before its author's User node got the author's name.
C9_Witness ==
  /\ pc = "loop" /\ fileno = 1
  /\ Len(raw.scripts) = 1
  /\ Len(raw.scripts[1].entries) = 2
  /\ raw.scripts[1].entries[1].node.typename = "Review"
  /\ raw.scripts[1].entries[2].node.typename = "User"
  /\ Len(json_reviews) = 1
  /\ json_reviews[1].reviewer = Amy

\* C10, as stated: the containers are those of the first cascade level that
\* matches anything: (1) marked single reviews, (2) review-like children of
\* the named region, (3) children of the legacy list.
C10_FirstLevelOnly ==
  pc = "dom" =>
    \A i \in 1..Len(blocks) :
      /\ (\E j \in 1..Len(raw.dom) : raw.dom[j].m1) => blocks[i].m1
      /\ ((\A j \in 1..Len(raw.dom) : ~raw.dom[j].m1)
          /\ (\E j \in 1..Len(raw.dom) : raw.dom[j].m2)) => blocks[i].m2
====
